---- MODULE Spec2Model ----
(***************************************************************************)
(* The Sonar samplers of py/sonar.py: the momentum integrator (SonarBase),  *)
(* the guidance engine (SonarGuidanceMixin) and the three step functions    *)
(* SonarEuler, SonarEulerAncestral and SonarNaive with their sampler loops. *)
(*                                                                         *)
(* Numbers are exact rationals <<numerator, denominator>>; a tensor is a    *)
(* sequence of rationals whose length stands for its shape.  Square roots   *)
(* are exact on squares of rationals and rounded down to tenths elsewhere.  *)
(***************************************************************************)
EXTENDS Integers, Sequences, FiniteSets, TLC

\* ------------------------------------------------------------- bounds
\* Longest sigma schedule explored has MaxSteps + 1 entries.
MaxSteps == 2

\* ------------------------------------------------------------- rationals
Abs(n) == IF n < 0 THEN -n ELSE n

RECURSIVE GCD(_, _)
GCD(a, b) == IF b = 0 THEN a ELSE GCD(b, a % b)

Norm(n, d) ==
    LET g == GCD(Abs(n), Abs(d))
        s == IF d < 0 THEN -1 ELSE 1
    IN  <<(s * n) \div g, (s * d) \div g>>

R(n) == <<n, 1>>
Q(n, d) == Norm(n, d)

\* Denominators are brought to their least common multiple, and factors are
\* cancelled crosswise before multiplying, to keep the integers small.
RAdd(a, b) ==
    LET g == GCD(a[2], b[2])
    IN  Norm(a[1] * (b[2] \div g) + b[1] * (a[2] \div g), (a[2] \div g) * b[2])
RNeg(a) == <<-a[1], a[2]>>
RSub(a, b) == RAdd(a, RNeg(b))
RMul(a, b) ==
    LET g1 == GCD(Abs(a[1]), b[2])
        g2 == GCD(Abs(b[1]), a[2])
    IN  Norm((a[1] \div g1) * (b[1] \div g2), (a[2] \div g2) * (b[2] \div g1))
RInv(a) == IF a[1] < 0 THEN <<-a[2], -a[1]>> ELSE <<a[2], a[1]>>
RDiv(a, b) == RMul(a, RInv(b))
RLe(a, b) == a[1] * b[2] <= b[1] * a[2]
RLt(a, b) == a[1] * b[2] < b[1] * a[2]
RMin(a, b) == IF RLe(a, b) THEN a ELSE b

\* Integer square root by bisection: lo * lo <= n < hi * hi throughout.
RECURSIVE ISqrtBetween(_, _, _)
ISqrtBetween(n, lo, hi) ==
    IF hi - lo <= 1 THEN lo
    ELSE LET mid == (lo + hi) \div 2
         IN  IF mid * mid <= n THEN ISqrtBetween(n, mid, hi)
             ELSE ISqrtBetween(n, lo, mid)
ISqrt(n) == ISqrtBetween(n, 0, 46341)
IsSquare(n) == ISqrt(n) * ISqrt(n) = n

\* x ** 0.5 for x >= 0: exact when x is the square of a rational, else the
\* root of x rounded down to a multiple of 1/10 (x is first brought to a
\* denominator of at most 10000).
Coarse(a) ==
    IF a[2] <= 10000 THEN a
    ELSE LET k == (a[2] \div 10000) + 1 IN <<a[1] \div k, a[2] \div k>>
RSqrt(a) ==
    IF IsSquare(a[1]) /\ IsSquare(a[2])
    THEN Norm(ISqrt(a[1]), ISqrt(a[2]))
    ELSE LET c == Coarse(a) IN Norm(ISqrt((c[1] * 100) \div c[2]), 10)

\* a rounded down to a multiple of 1/100
Hundredths(a) == LET c == Coarse(a) IN Norm((c[1] * 100) \div c[2], 100)

\* ------------------------------------------------------------- tensors
\* A tensor is a tuple of rationals; Vec makes the tuple of a function on 1..n.
Vec(f) == SubSeq(f, 1, Len(f))
TAdd(s, t) == Vec([k \in 1..Len(s) |-> RAdd(s[k], t[k])])
TSub(s, t) == Vec([k \in 1..Len(s) |-> RSub(s[k], t[k])])
TScale(t, c) == Vec([k \in 1..Len(t) |-> RMul(t[k], c)])
TDivS(t, c) == Vec([k \in 1..Len(t) |-> RDiv(t[k], c)])
TAddS(t, c) == Vec([k \in 1..Len(t) |-> RAdd(t[k], c)])
Zeros(n) == Vec([k \in 1..n |-> R(0)])

RECURSIVE TSumFrom(_, _)
TSumFrom(t, k) == IF k > Len(t) THEN R(0) ELSE RAdd(t[k], TSumFrom(t, k + 1))
\* Tensor.mean over all elements
TMean(t) == RDiv(TSumFrom(t, 1), R(Len(t)))
\* Tensor.std over all elements (unbiased, as torch.std), from the deviations
\* taken to two decimal places
TStd(t) ==
    LET m == TMean(t)
        dev == Vec([k \in 1..Len(t) |-> Hundredths(RSub(t[k], m))])
        sq == Vec([k \in 1..Len(t) |-> RMul(dev[k], dev[k])])
    IN  RSqrt(RDiv(TSumFrom(sq, 1), R(Len(t) - 1)))

\* float("inf"): every rational compares below it
Inf == <<1, 0>>

\* ------------------------------------------------------------- inputs
\* Sigma values a schedule is drawn from.
SigmaValues == {R(0), Q(1, 2), R(1), R(2)}

\* Sigma schedules: strictly decreasing, so only the last entry can be 0.
Schedules ==
    {s \in UNION {[1..n -> SigmaValues] : n \in 1..(MaxSteps + 1)} :
        \A k \in 1..(Len(s) - 1) : RLt(s[k + 1], s[k])}

\* Initial samples, of two shapes.
X0Set == {<<R(1), R(-2)>>, <<R(4), R(0), R(2)>>}

\* What the external denoiser returns for a sample: the zero tensor or half
\* the sample.
DenoiserChoices == {"zero", "half"}
Model(sample, dsel) ==
    IF dsel = "zero" THEN Zeros(Len(sample)) ELSE TScale(sample, Q(1, 2))

\* What a random draw (torch.randn_like, a noise sampler) returns for a shape.
RandChoices == {"a", "b"}
Randn(n, rsel) ==
    IF rsel = "a" THEN Vec([k \in 1..n |-> R(1)])
    ELSE Vec([k \in 1..n |-> IF k = 1 THEN R(-1) ELSE R(k)])

HistoryTypes == {"ZERO", "RAND", "SAMPLE"}

\* ------------------------------------------------------------- values
NoTensor == <<>>
NoneHist == [kind |-> "None", t |-> NoTensor]
IntZero == [kind |-> "int0", t |-> NoTensor]
TensorHist(t) == [kind |-> "tensor", t |-> t]

\* ------------------------------------------------------------- SonarBase
\* Mutant of init_hist_d: a history type of ZERO leaves the history None.
init_hist_d_skip_zero(self, x, rsel) ==
    IF self.history_d.kind # "None" THEN [raised |-> "", history_d |-> self.history_d]
    ELSE IF self.history_type = "ZERO" THEN [raised |-> "", history_d |-> NoneHist]
    ELSE IF self.history_type = "SAMPLE" THEN [raised |-> "", history_d |-> TensorHist(x)]
    ELSE [raised |-> "", history_d |-> TensorHist(Randn(Len(x), rsel))]

\* Mutant of init_hist_d: the history is set anew at every call.
init_hist_d_every_step(self, x, rsel) ==
    IF self.history_type = "ZERO" THEN [raised |-> "", history_d |-> IntZero]
    ELSE IF self.history_type = "SAMPLE" THEN [raised |-> "", history_d |-> TensorHist(x)]
    ELSE [raised |-> "", history_d |-> TensorHist(Randn(Len(x), rsel))]

\* SonarBase.init_hist_d: the history is set only while it is still None.
init_hist_d(self, x, rsel) ==
    IF self.history_d.kind # "None" THEN [raised |-> "", history_d |-> self.history_d]
    ELSE IF self.history_type = "ZERO" THEN [raised |-> "", history_d |-> IntZero]
    ELSE IF self.history_type = "SAMPLE" THEN [raised |-> "", history_d |-> TensorHist(x)]
    ELSE IF self.history_type = "RAND"
         THEN [raised |-> "", history_d |-> TensorHist(Randn(Len(x), rsel))]
    ELSE [raised |-> "ValueError", history_d |-> self.history_d]

\* Mutant of momentum_step: no shortcut for a momentum of 1.0.
momentum_step_no_shortcut(self, x, d, dt) ==
    IF self.history_d.kind = "None"
    THEN [raised |-> "TypeError", x |-> x, history_d |-> self.history_d]
    ELSE
        LET hd == self.history_d
            p == RMul(RSub(R(1), self.momentum), self.direction)
            momentum_d ==
                IF hd.kind = "int0" THEN TScale(d, RSub(R(1), p))
                ELSE TAdd(TScale(d, RSub(R(1), p)), TScale(hd.t, p))
            q == RSub(R(1), self.momentum_hist)
            hd2 ==
                IF hd.kind = "int0" THEN momentum_d
                ELSE TAdd(TScale(hd.t, RSub(R(1), q)), TScale(momentum_d, q))
        IN  [raised |-> "", x |-> TAdd(x, TScale(momentum_d, dt)),
             history_d |-> TensorHist(hd2)]

\* Mutant of momentum_step: the weights of the history update are exchanged.
momentum_step_hist_swapped(self, x, d, dt) ==
    IF self.momentum = R(1)
    THEN [raised |-> "", x |-> TAdd(x, TScale(d, dt)), history_d |-> self.history_d]
    ELSE IF self.history_d.kind = "None"
    THEN [raised |-> "TypeError", x |-> x, history_d |-> self.history_d]
    ELSE
        LET hd == self.history_d
            p == RMul(RSub(R(1), self.momentum), self.direction)
            momentum_d ==
                IF hd.kind = "int0" THEN TScale(d, RSub(R(1), p))
                ELSE TAdd(TScale(d, RSub(R(1), p)), TScale(hd.t, p))
            q == RSub(R(1), self.momentum_hist)
            hd2 ==
                IF hd.kind = "int0" THEN momentum_d
                ELSE TAdd(TScale(hd.t, q), TScale(momentum_d, RSub(R(1), q)))
        IN  [raised |-> "", x |-> TAdd(x, TScale(momentum_d, dt)),
             history_d |-> TensorHist(hd2)]

\* SonarBase.momentum_step: returns the new sample and the new history.
momentum_step(self, x, d, dt) ==
    IF self.momentum = R(1)
    THEN [raised |-> "", x |-> TAdd(x, TScale(d, dt)), history_d |-> self.history_d]
    ELSE IF self.history_d.kind = "None"
    THEN [raised |-> "TypeError", x |-> x, history_d |-> self.history_d]
    ELSE
        LET hd == self.history_d
            p == RMul(RSub(R(1), self.momentum), self.direction)
            momentum_d ==
                IF hd.kind = "int0" THEN TScale(d, RSub(R(1), p))
                ELSE TAdd(TScale(d, RSub(R(1), p)), TScale(hd.t, p))
            q == RSub(R(1), self.momentum_hist)
            hd2 ==
                IF hd.kind = "int0" THEN momentum_d
                ELSE TAdd(TScale(hd.t, RSub(R(1), q)), TScale(momentum_d, q))
        IN  [raised |-> "", x |-> TAdd(x, TScale(momentum_d, dt)),
             history_d |-> TensorHist(hd2)]

\* Mutant of to_d: the difference is not divided by sigma.
to_d_undivided(x, sigma, denoised) == TSub(x, denoised)

\* comfy.k_diffusion.sampling.to_d
to_d(x, sigma, denoised) == TDivS(TSub(x, denoised), sigma)

\* ------------------------------------------------------------- state
VARIABLES
    pc,        \* where the run is: idle, loop, callback, done, raised
    call,      \* the call that started the run and its arguments
    entry,     \* how the object was made: by a sampler classmethod or directly
    sonar,     \* the sampler object (self), or NoSonar before construction
    x0,        \* the sample the run was started with
    x,         \* the sampler loop's x
    i,         \* the sampler loop's i
    sigma_hat, \* the loop's sigma_hat, from the last step
    denoised,  \* the loop's denoised, from the last step
    callback,  \* whether a progress callback was supplied
    trace,     \* what happened so far: denoiser calls, noise-sampler calls,
               \* completed steps and callback calls, in order
    noise_spec, \* the noise specification object under construction or bound
    err,       \* the exception that ended the run, "" if none
    ret        \* the returned sample, once done

vars == <<pc, call, entry, sonar, x0, x, i, sigma_hat, denoised, callback, trace,
          noise_spec, err, ret>>

NoSonar ==
    [cls |-> "None", history_d |-> NoneHist, history_type |-> "ZERO",
     momentum |-> R(0), momentum_hist |-> R(0), direction |-> R(0),
     sigmas |-> <<>>, s_churn |-> R(0), s_tmin |-> R(0), s_tmax |-> Inf,
     s_noise |-> R(0), eta |-> R(0), ref_latent |-> NoTensor,
     guidance_type |-> "None", guidance_factor |-> R(0)]

\* SonarBase.__init__ and SonarSampler.__init__: the fields every sampler has.
SonarSampler(cls, sigmas, history_type, momentum, momentum_hist, direction) ==
    [NoSonar EXCEPT !.cls = cls, !.sigmas = sigmas, !.history_d = NoneHist,
                    !.history_type = history_type, !.momentum = momentum,
                    !.momentum_hist = momentum_hist, !.direction = direction]

\* An entry of trace; raised tells whether the call raised, and history_d is
\* the object's history once a step has completed.
Event(ev, idx, t, sg, sgh, den) ==
    [ev |-> ev, i |-> idx, x |-> t, sigma |-> sg, sigma_hat |-> sgh, denoised |-> den,
     raised |-> FALSE, history_d |-> NoneHist]

\* Number of steps of the bound schedule: len(sigmas) - 1.
NSteps == Len(sonar.sigmas) - 1

NoNoise == [cls |-> "None", tag |-> "None", modulation_function |-> "None",
            bound |-> "None", items |-> <<>>, scale |-> <<>>, result |-> <<>>,
            factor |-> <<1, 1>>, normalize |-> "None", normalize_bound |-> TRUE,
            repeat_length |-> 0, permute |-> TRUE, cache |-> <<>>, calls |-> 0,
            idx |-> 0, out |-> <<>>, start_sigma |-> <<0, 1>>,
            end_sigma |-> <<0, 1>>, fallback |-> FALSE, inside |-> FALSE,
            rands |-> <<0, 0, 0, 0>>]

NoCall ==
    [fn |-> "None", sigmas |-> <<>>, noise_type |-> "gaussian",
     noise_sampler |-> FALSE, guidance_latent |-> "None", guidance_type |-> "None",
     guidance_factor |-> R(0), tag |-> "None"]

Init ==
    /\ pc = "idle"
    /\ call = NoCall
    /\ entry = "none"
    /\ sonar = NoSonar
    /\ x0 = NoTensor
    /\ x = NoTensor
    /\ i = 0
    /\ sigma_hat = R(0)
    /\ denoised = NoTensor
    /\ callback = FALSE
    /\ trace = <<>>
    /\ noise_spec = NoNoise
    /\ err = ""
    /\ ret = NoTensor

\* ------------------------------------------------------------- SonarEuler
\* 2**0.5 - 1
Sqrt2Minus1 == RSub(RSqrt(R(2)), R(1))

\* SonarEuler.__init__
SonarEuler(s_churn, s_tmin, s_tmax, s_noise, sigmas, history_type, momentum, momentum_hist, direction) ==
    [SonarSampler("SonarEuler", sigmas, history_type, momentum, momentum_hist,
                  direction)
        EXCEPT !.s_churn = s_churn, !.s_tmin = s_tmin, !.s_tmax = s_tmax,
               !.s_noise = s_noise]

\* gamma of SonarEuler.step
EulerGamma(self, sigma) ==
    IF RLe(self.s_tmin, sigma) /\ RLe(sigma, self.s_tmax)
    THEN RMin(RDiv(self.s_churn, R(Len(self.sigmas) - 1)), Sqrt2Minus1)
    ELSE R(0)

\* SonarEuler.step.  With gamma > 0 torch.randn_like is handed sample.shape, a
\* torch.Size and no tensor, and raises TypeError before the denoiser is called.
EulerStep(self, step_index, sample, dsel, rsel) ==
    LET h == init_hist_d(self, sample, rsel)
        self1 == [self EXCEPT !.history_d = h.history_d]
        sigma == self.sigmas[step_index + 1]
        gamma == EulerGamma(self, sigma)
        sgh == RMul(sigma, RAdd(gamma, R(1)))
        den == Model(sample, dsel)
        derivative == to_d(sample, sigma, den)
        dt == RSub(self.sigmas[step_index + 2], sgh)
        m == momentum_step(self1, sample, derivative, dt)
        quiet == [raised |-> "", self |-> self1, x |-> sample, sigma |-> sigma,
                  sigma_hat |-> sgh, denoised |-> NoTensor, events |-> <<>>]
        called == <<Event("model", step_index, sample, sigma, sgh, den)>>
    IN  IF h.raised # "" THEN [quiet EXCEPT !.raised = h.raised, !.self = self]
        ELSE IF RLt(R(0), gamma) THEN [quiet EXCEPT !.raised = "TypeError"]
        ELSE IF m.raised # ""
        THEN [quiet EXCEPT !.raised = m.raised, !.denoised = den, !.events = called]
        ELSE [quiet EXCEPT !.self = [self1 EXCEPT !.history_d = m.history_d],
                           !.x = m.x, !.denoised = den, !.events = called]

Momenta == {R(1), Q(1, 2)}
MomentumHists == {Q(3, 4), Q(1, 2)}
Directions == {R(1), R(-1)}
\* (s_churn, s_tmin, s_tmax): no churn; churn at every sigma; churn only at
\* sigmas of at most 1.
ChurnChoices == {<<R(0), R(0), Inf>>, <<R(1), R(0), Inf>>, <<R(1), R(0), R(1)>>}

\* SonarEuler.sampler up to the loop: constructs the object.
EulerSampler ==
    /\ pc = "idle"
    /\ \E sg \in Schedules, xin \in X0Set, ht \in HistoryTypes, mo \in Momenta,
          mh \in MomentumHists, dir \in Directions, ch \in ChurnChoices,
          cb \in BOOLEAN :
        /\ sonar' = SonarEuler(ch[1], ch[2], ch[3], R(1), sg, ht, mo, mh, dir)
        /\ x0' = xin
        /\ x' = xin
        /\ callback' = cb
        /\ call' = [NoCall EXCEPT !.fn = "SonarEuler.sampler", !.sigmas = sg]
    /\ entry' = "sampler"
    /\ i' = 0
    /\ pc' = "loop"
    /\ UNCHANGED <<sigma_hat, denoised, trace, noise_spec, err, ret>>

\* The draws a step can make: torch.randn_like is drawn from only when the
\* history is initialised as RAND, the noise sampler only when sigma_to > 0.
HistDraws ==
    IF sonar.history_d.kind = "None" /\ sonar.history_type = "RAND" THEN RandChoices
    ELSE {"a"}
NoiseDraws ==
    IF i < NSteps /\ RLt(R(0), sonar.sigmas[i + 2]) THEN RandChoices ELSE {"a"}

\* What a step's outcome does to the loop: an exception ends the run, else the
\* loop variables are assigned and the callback, if any, is next.
ApplyStep(r) ==
    /\ sonar' = r.self
    /\ trace' = IF r.raised # "" THEN trace \o r.events
                ELSE (trace \o r.events)
                     \o <<[Event("step", i, r.x, r.sigma, r.sigma_hat, r.denoised)
                             EXCEPT !.history_d = r.self.history_d]>>
    /\ IF r.raised # ""
       THEN /\ pc' = "raised"
            /\ err' = r.raised
            /\ UNCHANGED <<x, i, sigma_hat, denoised>>
       ELSE /\ x' = r.x
            /\ sigma_hat' = r.sigma_hat
            /\ denoised' = r.denoised
            /\ err' = err
            /\ IF callback THEN pc' = "callback" /\ i' = i
               ELSE pc' = "loop" /\ i' = i + 1
    /\ UNCHANGED <<call, entry, x0, callback, noise_spec, ret>>

\* One iteration of SonarEuler.sampler's loop: sonar.step(i, x).
EulerLoopStep ==
    /\ pc = "loop"
    /\ sonar.cls = "SonarEuler"
    /\ i < NSteps
    /\ \E dsel \in DenoiserChoices, rsel \in HistDraws :
        ApplyStep(EulerStep(sonar, i, x, dsel, rsel))

\* Mutant of CallbackSigma: the sigma the step moved to.
CallbackSigmaNext == sonar.sigmas[i + 2]

\* The "sigma" entry of the callback's dict: sigmas[i].
CallbackSigma == sonar.sigmas[i + 1]

\* Mutant of Callback: an exception of the callback is swallowed and the loop
\* goes on.
CallbackSwallow ==
    /\ pc = "callback"
    /\ \E raises \in BOOLEAN :
        trace' = Append(trace, [Event("callback", i, x, CallbackSigma, sigma_hat,
                                      denoised)
                                  EXCEPT !.raised = raises])
    /\ pc' = "loop"
    /\ err' = err
    /\ i' = i + 1
    /\ UNCHANGED <<call, entry, sonar, x0, x, sigma_hat, denoised, callback, noise_spec,
                   ret>>

\* The callback call that ends an iteration; the callback may raise.
Callback ==
    /\ pc = "callback"
    /\ \E raises \in BOOLEAN :
        /\ trace' = Append(trace, [Event("callback", i, x, CallbackSigma,
                                         sigma_hat, denoised)
                                      EXCEPT !.raised = raises])
        /\ IF raises
           THEN pc' = "raised" /\ err' = "CallbackError" /\ i' = i
           ELSE pc' = "loop" /\ err' = err /\ i' = i + 1
    /\ UNCHANGED <<call, entry, sonar, x0, x, sigma_hat, denoised, callback, noise_spec,
                   ret>>

\* Mutant of Return: the sample the run was started with is returned.
ReturnInitial ==
    /\ pc = "loop"
    /\ i = NSteps
    /\ ret' = x0
    /\ pc' = "done"
    /\ UNCHANGED <<call, entry, sonar, x0, x, i, sigma_hat, denoised, callback, trace,
                   noise_spec, err>>

\* The loop is exhausted: return x.
Return ==
    /\ pc = "loop"
    /\ i = NSteps
    /\ ret' = x
    /\ pc' = "done"
    /\ UNCHANGED <<call, entry, sonar, x0, x, i, sigma_hat, denoised, callback, trace,
                   noise_spec, err>>

\* ------------------------------------------------------------- guidance
\* SonarGuidanceMixin.prepare_ref_latent, for a latent that is not None.
prepare_ref_latent(latent) == TDivS(TAddS(latent, RNeg(TMean(latent))), TStd(latent))

\* SonarGuidanceMixin.guidance_linear
guidance_linear(self, t) ==
    LET avg_t == TMean(t)
        std_t == TStd(t)
        ref_img_shift == TAddS(TScale(self.ref_latent, std_t), avg_t)
    IN  TAdd(TScale(t, RSub(R(1), self.guidance_factor)),
             TScale(ref_img_shift, self.guidance_factor))

\* SonarGuidanceMixin.guidance_euler
guidance_euler(self, step_index, t, den) ==
    LET avg_t == TMean(den)
        std_t == TStd(den)
        ref_img_shift == TAddS(TScale(self.ref_latent, std_t), avg_t)
        sigma == self.sigmas[step_index + 1]
        sigma_next == self.sigmas[step_index + 2]
        d == to_d(t, sigma, ref_img_shift)
        dt == RMul(RSub(sigma_next, sigma), self.guidance_factor)
    IN  TAdd(t, TScale(d, dt))

\* SonarGuidanceMixin.guidance_step
guidance_step(self, step_index, t, den) ==
    IF \/ self.ref_latent = NoTensor
       \/ self.guidance_type = "None"
       \/ self.guidance_factor = R(0)
    THEN [raised |-> "", x |-> t]
    ELSE IF self.guidance_type = "LINEAR"
    THEN [raised |-> "", x |-> guidance_linear(self, t)]
    ELSE IF self.guidance_type = "EULER"
    THEN [raised |-> "", x |-> guidance_euler(self, step_index, t, den)]
    ELSE [raised |-> "ValueError", x |-> t]

\* ------------------------------------------------------------- ancestral
\* comfy.k_diffusion.sampling.get_ancestral_step, as called by the two
\* ancestral step functions: <<sigma_down, sigma_up>>.
get_ancestral_step(sigma_from, sigma_to, eta) ==
    IF eta = R(0) THEN <<sigma_to, R(0)>>
    ELSE
        LET s2 == RMul(sigma_to, sigma_to)
            f2 == RMul(sigma_from, sigma_from)
            sigma_up == RMin(sigma_to,
                             RMul(eta, RSqrt(RDiv(RMul(s2, RSub(f2, s2)), f2))))
            sigma_down == RSqrt(RSub(s2, RMul(sigma_up, sigma_up)))
        IN  <<sigma_down, sigma_up>>

\* Mutant of AncestralDt: the step runs from sigma_down to sigma_from.
AncestralDtReversed(sigma_down, sigma_from) == RSub(sigma_from, sigma_down)

\* dt = sigma_down - sigma_from
AncestralDt(sigma_down, sigma_from) == RSub(sigma_down, sigma_from)

\* Mutant of AddsNoise: noise is added whatever sigma_to is.
AddsNoiseAlways(sigma_to) == TRUE

\* if sigma_to > 0: the step calls the noise sampler and adds its noise.
AddsNoise(sigma_to) == RLt(R(0), sigma_to)

\* The steps of SonarEulerAncestral.step and SonarNaive.step differ in eta and
\* in the guidance applied before the noise is added (guided is TRUE for
\* SonarNaive.step).
AncestralStepBody(self, step_index, sample, eta, guided, dsel, rsel, nsel) ==
    LET h == init_hist_d(self, sample, rsel)
        self1 == [self EXCEPT !.history_d = h.history_d]
        sigma_from == self.sigmas[step_index + 1]
        sigma_to == self.sigmas[step_index + 2]
        anc == get_ancestral_step(sigma_from, sigma_to, eta)
        sigma_down == anc[1]
        sigma_up == anc[2]
        den == Model(sample, dsel)
        derivative == to_d(sample, sigma_from, den)
        dt == AncestralDt(sigma_down, sigma_from)
        m == momentum_step(self1, sample, derivative, dt)
        self2 == [self1 EXCEPT !.history_d = m.history_d]
        g == IF guided THEN guidance_step(self2, step_index, m.x, den)
             ELSE [raised |-> "", x |-> m.x]
        noise == Randn(Len(sample), nsel)
        noisy == TAdd(g.x, TScale(noise, RMul(self.s_noise, sigma_up)))
        quiet == [raised |-> "", self |-> self1, x |-> sample, sigma |-> sigma_from,
                  sigma_hat |-> sigma_from, denoised |-> NoTensor, events |-> <<>>]
        called == <<Event("model", step_index, sample, sigma_from, sigma_from, den)>>
        drawn == <<Event("noise", step_index, noise, sigma_from, sigma_to, NoTensor)>>
    IN  IF h.raised # "" THEN [quiet EXCEPT !.raised = h.raised, !.self = self]
        ELSE IF m.raised # ""
        THEN [quiet EXCEPT !.raised = m.raised, !.denoised = den, !.events = called]
        ELSE IF ~AddsNoise(sigma_to)
        THEN [quiet EXCEPT !.self = self2, !.x = m.x, !.denoised = den,
                           !.events = called]
        ELSE IF g.raised # ""
        THEN [quiet EXCEPT !.raised = g.raised, !.self = self2, !.denoised = den,
                           !.events = called]
        ELSE [quiet EXCEPT !.self = self2, !.x = noisy, !.denoised = den,
                           !.events = called \o drawn]

\* SonarEulerAncestral.step
AncestralStep(self, step_index, sample, dsel, rsel, nsel) ==
    AncestralStepBody(self, step_index, sample, self.eta, FALSE, dsel, rsel, nsel)

\* Mutant of NaiveStep: the guidance step is left out.
NaiveStepUnguided(self, step_index, sample, dsel, rsel, nsel) ==
    AncestralStepBody(self, step_index, sample, R(1), FALSE, dsel, rsel, nsel)

\* SonarNaive.step
NaiveStep(self, step_index, sample, dsel, rsel, nsel) ==
    AncestralStepBody(self, step_index, sample, R(1), TRUE, dsel, rsel, nsel)

\* SonarEulerAncestral.__init__
SonarEulerAncestral(eta, s_noise, sigmas, history_type, momentum, momentum_hist, direction) ==
    [SonarSampler("SonarEulerAncestral", sigmas, history_type, momentum,
                  momentum_hist, direction)
        EXCEPT !.eta = eta, !.s_noise = s_noise]

\* How guidance_latent is passed: None, a latent dict whose "samples" is None,
\* or a latent dict holding a tensor of the sample's shape.
GuidanceLatents == {"None", "NoSamples", "Latent"}
LatentSamples(n) == Vec([k \in 1..n |-> R(k)])
GuidanceTypes == {"None", "LINEAR", "EULER", "BOGUS"}
GuidanceFactors == {R(0), Q(1, 2)}

\* SonarNaive.__init__ with SonarGuidanceMixin.__init__: subscripting a
\* guidance_latent of None raises TypeError.
SonarNaive(s_noise, guidance_type, guidance_latent, guidance_factor, n, sigmas, history_type, momentum, momentum_hist, direction) ==
    IF guidance_latent = "None" THEN [raised |-> "TypeError", self |-> NoSonar]
    ELSE [raised |-> "",
          self |-> [SonarSampler("SonarNaive", sigmas, history_type, momentum,
                                 momentum_hist, direction)
                      EXCEPT !.s_noise = s_noise, !.eta = R(1),
                             !.guidance_type = guidance_type,
                             !.guidance_factor = guidance_factor,
                             !.ref_latent =
                                 IF guidance_latent = "NoSamples" THEN NoTensor
                                 ELSE prepare_ref_latent(LatentSamples(n))]]

\* noise.get_noise_sampler: its keyword parameters, and what a call that
\* passes the keywords kw with the noise type name nt does.
GetNoiseSamplerKeywords == {"seed", "cpu", "factor", "normalized"}
NoiseTypeNames == {"gaussian", "perlin", "brownian"}
get_noise_sampler(nt, kw) ==
    IF ~(kw \subseteq GetNoiseSamplerKeywords) THEN "TypeError"
    ELSE IF nt \notin NoiseTypeNames THEN "KeyError"
    ELSE ""

\* Mutant of AncestralBind: a noise sampler passed along with a non-default
\* noise type is not rejected.
AncestralBindUnchecked(nt, given, sg) ==
    IF \A k \in 1..Len(sg) : ~RLt(R(0), sg[k]) THEN "RuntimeError"
    ELSE get_noise_sampler(nt, {"seed", "use_cpu"})

\* The head of SonarEulerAncestral.sampler and SonarNaive.sampler, up to the
\* construction of the object: the exception it raises, "" if none.
AncestralBind(nt, given, sg) ==
    IF nt # "gaussian" /\ given THEN "ValueError"
    ELSE IF \A k \in 1..Len(sg) : ~RLt(R(0), sg[k]) THEN "RuntimeError"
    ELSE get_noise_sampler(nt, {"seed", "use_cpu"})

Etas == {R(0), R(1)}
SNoises == {R(1), R(2)}
CallNoiseTypes == {"gaussian", "perlin"}

\* SonarEulerAncestral.sampler up to the loop.
AncestralSampler ==
    /\ pc = "idle"
    /\ \E sg \in Schedules, xin \in X0Set, ht \in HistoryTypes, mo \in Momenta,
          nt \in CallNoiseTypes, given \in BOOLEAN, cb \in BOOLEAN :
        LET e == AncestralBind(nt, given, sg) IN
        /\ call' = [NoCall EXCEPT !.fn = "SonarEulerAncestral.sampler",
                                  !.sigmas = sg, !.noise_type = nt,
                                  !.noise_sampler = given]
        /\ x0' = xin
        /\ x' = xin
        /\ callback' = cb
        /\ err' = e
        /\ pc' = IF e # "" THEN "raised" ELSE "loop"
        /\ sonar' = IF e # "" THEN sonar
                    ELSE SonarEulerAncestral(R(1), R(1), sg, ht, mo, Q(3, 4), R(1))
    /\ entry' = "sampler"
    /\ i' = 0
    /\ UNCHANGED <<sigma_hat, denoised, trace, noise_spec, ret>>

\* SonarNaive.sampler up to the loop.
NaiveSampler ==
    /\ pc = "idle"
    /\ \E sg \in Schedules, xin \in X0Set, ht \in HistoryTypes, mo \in Momenta,
          nt \in CallNoiseTypes, given \in BOOLEAN, cb \in BOOLEAN,
          gl \in GuidanceLatents :
        LET e == AncestralBind(nt, given, sg)
            new == SonarNaive(R(1), "LINEAR", gl, Q(1, 2), Len(xin), sg, ht, mo,
                              Q(3, 4), R(1))
            e2 == IF e # "" THEN e ELSE new.raised
        IN
        /\ call' = [NoCall EXCEPT !.fn = "SonarNaive.sampler",
                                  !.sigmas = sg, !.noise_type = nt,
                                  !.noise_sampler = given, !.guidance_latent = gl,
                                  !.guidance_type = "LINEAR",
                                  !.guidance_factor = Q(1, 2)]
        /\ x0' = xin
        /\ x' = xin
        /\ callback' = cb
        /\ err' = e2
        /\ pc' = IF e2 # "" THEN "raised" ELSE "loop"
        /\ sonar' = IF e2 # "" THEN sonar ELSE new.self
    /\ entry' = "sampler"
    /\ i' = 0
    /\ UNCHANGED <<sigma_hat, denoised, trace, noise_spec, ret>>

\* A SonarEulerAncestral object constructed directly, with a noise sampler of
\* the caller's, and then stepped over its schedule as the sampler loop does.
NewEulerAncestral ==
    /\ pc = "idle"
    /\ \E sg \in Schedules, xin \in X0Set, ht \in HistoryTypes, mo \in Momenta,
          eta \in Etas, sn \in SNoises :
        /\ call' = [NoCall EXCEPT !.fn = "SonarEulerAncestral", !.sigmas = sg,
                                  !.noise_sampler = TRUE]
        /\ sonar' = SonarEulerAncestral(eta, sn, sg, ht, mo, Q(3, 4), R(1))
        /\ x0' = xin
        /\ x' = xin
    /\ entry' = "direct"
    /\ callback' = FALSE
    /\ i' = 0
    /\ pc' = "loop"
    /\ UNCHANGED <<sigma_hat, denoised, trace, noise_spec, err, ret>>

\* A SonarNaive object constructed directly, likewise.
NewNaive ==
    /\ pc = "idle"
    /\ \E sg \in Schedules, xin \in X0Set, ht \in HistoryTypes, mo \in Momenta,
          gt \in GuidanceTypes, gl \in GuidanceLatents, gf \in GuidanceFactors :
        LET new == SonarNaive(R(1), gt, gl, gf, Len(xin), sg, ht, mo, Q(3, 4), R(1))
        IN
        /\ call' = [NoCall EXCEPT !.fn = "SonarNaive", !.sigmas = sg,
                                  !.noise_sampler = TRUE, !.guidance_latent = gl,
                                  !.guidance_type = gt, !.guidance_factor = gf]
        /\ sonar' = new.self
        /\ err' = new.raised
        /\ pc' = IF new.raised # "" THEN "raised" ELSE "loop"
        /\ x0' = xin
        /\ x' = xin
    /\ entry' = "direct"
    /\ callback' = FALSE
    /\ i' = 0
    /\ UNCHANGED <<sigma_hat, denoised, trace, noise_spec, ret>>

\* One iteration of SonarEulerAncestral.sampler's loop: sonar.step(i, x).
AncestralLoopStep ==
    /\ pc = "loop"
    /\ sonar.cls = "SonarEulerAncestral"
    /\ i < NSteps
    /\ \E dsel \in DenoiserChoices, rsel \in HistDraws, nsel \in NoiseDraws :
        ApplyStep(AncestralStep(sonar, i, x, dsel, rsel, nsel))

\* One iteration of SonarNaive.sampler's loop: sonar.step(i, x).
NaiveLoopStep ==
    /\ pc = "loop"
    /\ sonar.cls = "SonarNaive"
    /\ i < NSteps
    /\ \E dsel \in DenoiserChoices, rsel \in HistDraws, nsel \in NoiseDraws :
        ApplyStep(NaiveStep(sonar, i, x, dsel, rsel, nsel))

\* ------------------------------------------------------------- noise specs
\* The modulation_type and method tags a caller may pass; "bogus" is none of
\* the recognised ones.
ModulationTags == {"none", "intensity", "frequency", "spectral_signum", "bogus"}
MethodTags == {"linear", "euler", "bogus"}

\* ModulatedNoise.__init__: the modulation function chosen for a tag.
ModulationFunction(modulation_type) ==
    IF modulation_type = "intensity" THEN "intensity_based_multiplicative_noise"
    ELSE IF modulation_type = "frequency" THEN "frequency_based_noise"
    ELSE IF modulation_type = "spectral_signum" THEN "spectral_modulate_noise"
    ELSE "None"

\* ModulatedNoise.make_noise_sampler: which closure it returns.
ModulatedBind(self) ==
    IF self.modulation_function = "None"
    THEN [raised |-> "", bound |-> "passthrough"]
    ELSE [raised |-> "", bound |-> "modulated"]

\* GuidedNoise.make_noise_sampler: the match on self.method defines the closure
\* only for "linear" and "euler"; returning it undefined raises
\* UnboundLocalError.
GuidedBind(self) ==
    IF self.tag = "linear" THEN [raised |-> "", bound |-> "linear"]
    ELSE IF self.tag = "euler" THEN [raised |-> "", bound |-> "euler"]
    ELSE [raised |-> "UnboundLocalError", bound |-> "None"]

\* ModulatedNoise(...) is constructed.
NewModulatedNoise ==
    /\ pc = "idle"
    /\ \E tag \in ModulationTags :
        /\ noise_spec' = [NoNoise EXCEPT !.cls = "ModulatedNoise", !.tag = tag,
                                    !.modulation_function = ModulationFunction(tag)]
        /\ call' = [NoCall EXCEPT !.fn = "ModulatedNoise", !.tag = tag]
    /\ pc' = "noise_spec"
    /\ UNCHANGED <<entry, sonar, x0, x, i, sigma_hat, denoised, callback, trace, err, ret>>

\* GuidedNoise(...) is constructed.
NewGuidedNoise ==
    /\ pc = "idle"
    /\ \E tag \in MethodTags :
        /\ noise_spec' = [NoNoise EXCEPT !.cls = "GuidedNoise", !.tag = tag]
        /\ call' = [NoCall EXCEPT !.fn = "GuidedNoise", !.tag = tag]
    /\ pc' = "noise_spec"
    /\ UNCHANGED <<entry, sonar, x0, x, i, sigma_hat, denoised, callback, trace, err, ret>>

\* make_noise_sampler of the constructed specification is called.
MakeNoiseSampler ==
    /\ pc = "noise_spec"
    /\ LET b == IF noise_spec.cls = "ModulatedNoise" THEN ModulatedBind(noise_spec)
                ELSE GuidedBind(noise_spec)
       IN  /\ noise_spec' = [noise_spec EXCEPT !.bound = b.bound]
           /\ err' = b.raised
           /\ pc' = IF b.raised # "" THEN "raised" ELSE "noise_bound"
    /\ UNCHANGED <<call, entry, sonar, x0, x, i, sigma_hat, denoised, callback, trace, ret>>

\* ------------------------------------------------------------- noise chain
\* Largest number of children a chain is given.
MaxItems == 2

RAbs(a) == <<Abs(a[1]), a[2]>>

\* The children a chain can hold: a leaf item (CustomNoiseItem), a combinator
\* specification (both have a factor attribute and set_factor), or a chain.
NoiseItem(kind, factor) == [kind |-> kind, factor |-> factor, items |-> <<>>]
NestedChain(items) == [kind |-> "chain", factor |-> R(0), items |-> items]
ItemFactors == {R(0), R(1), R(-3), Q(1, 2)}
ChainChildren ==
    {NoiseItem("item", f) : f \in ItemFactors}
    \cup {NoiseItem("spec", R(2))}
    \cup {NestedChain(<<NoiseItem("item", R(1)), NoiseItem("item", R(-1))>>)}

\* CustomNoiseChain.factor: sum(abs(i.factor) for i in self.items); the factor
\* of a child that is a chain is that chain's factor property.
RECURSIVE ChainFactorFrom(_, _)
ChainFactorFrom(items, k) ==
    IF k > Len(items) THEN R(0)
    ELSE LET c == items[k]
             f == IF c.kind = "chain" THEN ChainFactorFrom(c.items, 1) ELSE c.factor
         IN  RAdd(RAbs(f), ChainFactorFrom(items, k + 1))
ChainFactor(items) == ChainFactorFrom(items, 1)

\* child.factor, as rescaled and the factor property read it.
ChildFactor(c) == IF c.kind = "chain" THEN ChainFactor(c.items) ELSE c.factor

\* The divisor of CustomNoiseChain.rescaled: factor / scale, forced to 1 when 0.
ChainDivisor(items, scale) ==
    LET divisor == RDiv(ChainFactor(items), scale)
    IN  IF divisor = R(0) THEN R(1) ELSE divisor

\* CustomNoiseChain.rescaled: a clone whose children have set_factor called
\* with factor / divisor.  A scale of 0 raises ZeroDivisionError; a child that
\* is a chain has no set_factor and raises AttributeError.
rescaled(items, scale) ==
    IF scale = R(0) THEN [raised |-> "ZeroDivisionError", items |-> <<>>]
    ELSE LET divisor == ChainDivisor(items, scale) IN
         IF divisor = R(1) THEN [raised |-> "", items |-> items]
         ELSE IF \E k \in 1..Len(items) : items[k].kind = "chain"
         THEN [raised |-> "AttributeError", items |-> <<>>]
         ELSE [raised |-> "",
               items |-> Vec([k \in 1..Len(items) |->
                              [items[k] EXCEPT !.factor =
                                   RDiv(items[k].factor, divisor)]])]

\* CustomNoiseChain(): an empty chain.
NewChain ==
    /\ pc = "idle"
    /\ noise_spec' = [NoNoise EXCEPT !.cls = "CustomNoiseChain"]
    /\ call' = [NoCall EXCEPT !.fn = "CustomNoiseChain"]
    /\ pc' = "chain"
    /\ UNCHANGED <<entry, sonar, x0, x, i, sigma_hat, denoised, callback, trace, err,
                   ret>>

\* CustomNoiseChain.add
ChainAdd ==
    /\ pc = "chain"
    /\ Len(noise_spec.items) < MaxItems
    /\ \E item \in ChainChildren :
        noise_spec' = [noise_spec EXCEPT !.items = Append(@, item)]
    /\ UNCHANGED <<pc, call, entry, sonar, x0, x, i, sigma_hat, denoised, callback,
                   trace, err, ret>>

RescaleTargets == {R(1), R(2), R(0), R(-1)}

\* chain.rescaled(scale) is called on the chain built so far.
ChainRescaled ==
    /\ pc = "chain"
    /\ \E scale \in RescaleTargets :
        LET r == rescaled(noise_spec.items, scale) IN
        /\ noise_spec' = [noise_spec EXCEPT !.scale = scale, !.result = r.items]
        /\ err' = r.raised
        /\ pc' = IF r.raised # "" THEN "raised" ELSE "rescaled"
    /\ UNCHANGED <<call, entry, sonar, x0, x, i, sigma_hat, denoised, callback, trace,
                   ret>>

\* ------------------------------------------------------------- noise samplers
\* Largest number of calls made to one bound noise sampler.
MaxCalls == 4

\* Not-a-number, what a division of 0 by 0 gives.
NaN == <<0, 0>>

\* scale_noise of noise_generation: the tensor is brought to a standard
\* deviation of 1 when normalized is set, and then multiplied by factor.
scale_noise(noise, factor, normalized) ==
    IF ~normalized THEN TScale(noise, factor)
    ELSE LET std == TStd(noise)
         IN  IF std = R(0) THEN Vec([k \in 1..Len(noise) |-> NaN])
             ELSE TScale(TDivS(noise, std), factor)

\* The shape the noise specifications are bound to, and what the base and the
\* fallback sampler of a combinator return for it.
BindShapes == {<<R(4), R(0), R(2)>>}
BaseNoise(n, sel) ==
    IF sel = "a" THEN Vec([k \in 1..n |-> R(2 - k)])
    ELSE Vec([k \in 1..n |-> R(2 * k - 2)])
FallbackNoise(n) == Vec([k \in 1..n |-> R(3 - 2 * k)])

\* The (sigma, sigma_next) pairs a bound sampler is called with.
SigmaPairs ==
    {p \in SigmaValues \X SigmaValues : RLt(p[2], p[1]) /\ RLe(p[1], RMul(R(2), p[2]))}
        \cup {<<Q(1, 2), R(0)>>}

\* torch.flip and torch.roll along the one dimension of the tensor.
Flip(t) == Vec([k \in 1..Len(t) |-> t[Len(t) + 1 - k]])
Roll(t, count) == Vec([k \in 1..Len(t) |-> t[((k - 1 - count) % Len(t)) + 1]])

\* u32_max // 10
U32MaxTenth == 429496729

\* The four numbers torch.randint draws at each call of the repeated sampler.
\* They select, in turn: entry 0 kept, entry 0 flipped, entry 0 rolled by 1,
\* entry 1 rolled by 0, entry 1 flipped, entry 1 rolled by 1.
Rands ==
    {<<0, 0, 7, 0>>, <<0, 0, U32MaxTenth + 1, 1>>, <<0, 1, 7, 1>>,
     <<1, 1, 7, 0>>, <<1, 0, U32MaxTenth + 1, 0>>, <<1, 1, U32MaxTenth + 1, 1>>}

\* Mutant of RepeatedFilling: one tensor more than repeat_length is cached.
RepeatedFillingOneMore(self, cache) == Len(cache) <= self.repeat_length

\* len(noise_items) < self.repeat_length
RepeatedFilling(self, cache) == Len(cache) < self.repeat_length

\* Mutant of RepeatedPermute: the tensor is returned as it is.
RepeatedPermuteNone(noise, rands) == noise

\* The permutation of RepeatedNoise's sampler: match rands[1] % permute_options.
RepeatedPermute(noise, rands) ==
    IF rands[2] % 2 = 0
    THEN IF rands[3] <= U32MaxTenth THEN noise ELSE Flip(noise)
    ELSE Roll(noise, rands[4] % Len(noise))

\* The closure RepeatedNoise.make_noise_sampler returns, called with the
\* random numbers rands while the base sampler would return base: the new
\* cache, the index selected and the tensor returned.
RepeatedSampler(self, cache, rands, base) ==
    LET filling == RepeatedFilling(self, cache)
        cache2 == IF filling THEN Append(cache, base) ELSE cache
        quiet == [raised |-> "", cache |-> cache2, called |-> filling, idx |-> 0,
                  out |-> NoTensor]
    IN  IF ~filling /\ self.repeat_length = 0
        THEN [quiet EXCEPT !.raised = "ZeroDivisionError"]
        ELSE LET idx == IF filling THEN Len(cache) ELSE rands[1] % self.repeat_length
                 noise == cache2[idx + 1]
             IN  IF ~self.permute THEN [quiet EXCEPT !.idx = idx, !.out = noise]
                 ELSE [quiet EXCEPT !.idx = idx,
                                    !.out = scale_noise(RepeatedPermute(noise, rands),
                                                        self.factor,
                                                        self.normalize_bound)]

\* normalize = self.normalize if self.normalize is not None else normalized
Normalize(self, normalized) ==
    IF self.normalize = "None" THEN normalized ELSE self.normalize = "True"

SpecFactors == {R(1), R(2)}
RepeatLengths == {0, 1, 2}
\* normalize of a specification: None leaves it to the normalized argument of
\* make_noise_sampler.
Normalizes == {"None", "False"}

\* RepeatedNoise(...) is constructed.
NewRepeatedNoise ==
    /\ pc = "idle"
    /\ \E f \in SpecFactors, rl \in RepeatLengths, nz \in Normalizes,
          pm \in BOOLEAN :
        noise_spec' = [NoNoise EXCEPT !.cls = "RepeatedNoise", !.factor = f,
                                      !.repeat_length = rl, !.normalize = nz,
                                      !.permute = pm]
    /\ call' = [NoCall EXCEPT !.fn = "RepeatedNoise"]
    /\ pc' = "repeated"
    /\ UNCHANGED <<entry, sonar, x0, x, i, sigma_hat, denoised, callback, trace, err,
                   ret>>

\* RepeatedNoise.make_noise_sampler(x) with normalized left at its default:
\* the cache starts empty.
RepeatedMakeNoiseSampler ==
    /\ pc = "repeated"
    /\ \E xin \in BindShapes :
        /\ x0' = xin
        /\ x' = xin
    /\ noise_spec' = [noise_spec EXCEPT
                        !.bound = "repeated", !.cache = <<>>, !.calls = 0,
                        !.normalize_bound = Normalize(noise_spec, TRUE)]
    /\ pc' = "repeated_bound"
    /\ UNCHANGED <<call, entry, sonar, i, sigma_hat, denoised, callback, trace, err,
                   ret>>

\* What a call of the repeated sampler can draw on: the sigmas and the base
\* sampler's output reach the call only while the cache is filling.
RepeatedSigmaDraws ==
    IF RepeatedFilling(noise_spec, noise_spec.cache) THEN SigmaPairs
    ELSE {<<R(1), Q(1, 2)>>}
RepeatedBaseDraws ==
    IF RepeatedFilling(noise_spec, noise_spec.cache) THEN RandChoices ELSE {"a"}

\* One call noise_sampler(s, sn) of the bound repeated sampler.
RepeatedSample ==
    /\ pc = "repeated_bound"
    /\ noise_spec.calls < MaxCalls
    /\ \E sg \in RepeatedSigmaDraws, rands \in Rands, sel \in RepeatedBaseDraws :
        LET r == RepeatedSampler(noise_spec, noise_spec.cache, rands,
                                 BaseNoise(Len(x), sel))
            base == <<Event("base", noise_spec.calls, BaseNoise(Len(x), sel),
                            sg[1], sg[2], NoTensor)>>
        IN  /\ noise_spec' = [noise_spec EXCEPT !.cache = r.cache, !.calls = @ + 1,
                                                !.idx = r.idx, !.out = r.out,
                                                !.rands = rands]
            /\ trace' = IF r.called THEN trace \o base ELSE trace
            /\ err' = r.raised
            /\ pc' = IF r.raised # "" THEN "raised" ELSE pc
    /\ UNCHANGED <<call, entry, sonar, x0, x, i, sigma_hat, denoised, callback, ret>>

\* Mutant of ScheduledInside: every sigma counts as inside the window.
ScheduledInsideAlways(self, s) == TRUE

\* Mutant of ScheduledInside: the bounds of the window are excluded.
ScheduledInsideStrict(self, s) == RLt(s, self.start_sigma) /\ RLt(self.end_sigma, s)

\* s <= self.start_sigma and s >= self.end_sigma
ScheduledInside(self, s) == RLe(s, self.start_sigma) /\ RLe(self.end_sigma, s)

\* The closure ScheduledNoise.make_noise_sampler returns, called with sigma s
\* while the base sampler would return base and the fallback sampler fb:
\* which sampler was called, what it returned and the tensor returned.
ScheduledSampler(self, s, base, fb) ==
    LET inside == ScheduledInside(self, s)
        child == IF inside THEN "base" ELSE IF self.fallback THEN "fallback"
                 ELSE "zeros"
        noise == IF inside THEN base ELSE IF self.fallback THEN fb
                 ELSE Zeros(Len(base))
    IN  [child |-> child, noise |-> noise, inside |-> inside,
         out |-> scale_noise(noise, self.factor, self.normalize_bound)]

ScheduledFactors == {R(2)}
StartSigmas == {R(1), R(2)}
EndSigmas == {Q(1, 2), R(1)}

\* ScheduledNoise(...) is constructed, with or without a fallback sampler.
NewScheduledNoise ==
    /\ pc = "idle"
    /\ \E f \in ScheduledFactors, st \in StartSigmas, en \in EndSigmas,
          nz \in Normalizes, fb \in BOOLEAN :
        noise_spec' = [NoNoise EXCEPT !.cls = "ScheduledNoise", !.factor = f,
                                      !.start_sigma = st, !.end_sigma = en,
                                      !.normalize = nz, !.fallback = fb]
    /\ call' = [NoCall EXCEPT !.fn = "ScheduledNoise"]
    /\ pc' = "scheduled"
    /\ UNCHANGED <<entry, sonar, x0, x, i, sigma_hat, denoised, callback, trace, err,
                   ret>>

\* ScheduledNoise.make_noise_sampler(x) with normalized left at its default.
ScheduledMakeNoiseSampler ==
    /\ pc = "scheduled"
    /\ \E xin \in BindShapes :
        /\ x0' = xin
        /\ x' = xin
    /\ noise_spec' = [noise_spec EXCEPT
                        !.bound = "scheduled", !.calls = 0,
                        !.normalize_bound = Normalize(noise_spec, TRUE)]
    /\ pc' = "scheduled_bound"
    /\ UNCHANGED <<call, entry, sonar, i, sigma_hat, denoised, callback, trace, err,
                   ret>>

\* One call noise_sampler(s, sn) of the bound scheduled sampler.
ScheduledSample ==
    /\ pc = "scheduled_bound"
    /\ noise_spec.calls < MaxCalls
    /\ \E sg \in SigmaPairs, sel \in RandChoices :
        LET r == ScheduledSampler(noise_spec, sg[1], BaseNoise(Len(x), sel),
                                  FallbackNoise(Len(x)))
        IN  \* the base sampler's draw matters only inside the window
            /\ (r.inside \/ sel = "a")
            /\ noise_spec' = [noise_spec EXCEPT !.calls = @ + 1, !.out = r.out,
                                                !.inside = r.inside]
            /\ trace' = Append(trace, Event(r.child, noise_spec.calls, r.noise,
                                            sg[1], sg[2], NoTensor))
    /\ UNCHANGED <<pc, call, entry, sonar, x0, x, i, sigma_hat, denoised, callback,
                   err, ret>>

Next ==
    \/ EulerSampler
    \/ AncestralSampler
    \/ NaiveSampler
    \/ NewEulerAncestral
    \/ NewNaive
    \/ EulerLoopStep
    \/ AncestralLoopStep
    \/ NaiveLoopStep
    \/ NewModulatedNoise
    \/ NewGuidedNoise
    \/ MakeNoiseSampler
    \/ Callback
    \/ NewChain
    \/ ChainAdd
    \/ ChainRescaled
    \/ NewRepeatedNoise
    \/ RepeatedMakeNoiseSampler
    \/ RepeatedSample
    \/ NewScheduledNoise
    \/ ScheduledMakeNoiseSampler
    \/ ScheduledSample
    \/ Return

Spec == Init /\ [][Next]_vars

\* ------------------------------------------------------------- claims
EventsOf(kind) == SelectSeq(trace, LAMBDA e : e.ev = kind)
ModelCalls == EventsOf("model")
StepsDone == EventsOf("step")
CallbackCalls == EventsOf("callback")
NoiseCalls == EventsOf("noise")
Running == pc \in {"loop", "callback"}

\* C1: a SonarEuler.sampler run without churn calls the denoiser once per step
\* index 0, 1, ..., N-1 in this order, feeds each step the sample the step
\* before returned (the initial sample to step 0), raises nothing of its own,
\* never steps past index N-1, and returns the sample of step N-1 (the initial
\* sample when N = 0).
C1_EulerLoop ==
    (call.fn = "SonarEuler.sampler" /\ sonar.s_churn = R(0)) =>
        /\ Len(StepsDone) = Len(ModelCalls)
        /\ Len(ModelCalls) <= NSteps
        /\ \A k \in 1..Len(ModelCalls) :
            /\ ModelCalls[k].i = k - 1
            /\ StepsDone[k].i = k - 1
            /\ ModelCalls[k].x = IF k = 1 THEN x0 ELSE StepsDone[k - 1].x
        /\ err \in {"", "CallbackError"}
        /\ i <= NSteps
        /\ pc = "callback" => i < NSteps
        /\ pc = "loop" => Len(ModelCalls) = i
        /\ pc = "done" =>
            /\ Len(ModelCalls) = NSteps
            /\ ret = IF NSteps = 0 THEN x0 ELSE StepsDone[NSteps].x

C1_Witness ==
    /\ call.fn = "SonarEuler.sampler"
    /\ sonar.s_churn = R(0)
    /\ pc = "done"
    /\ NSteps = 2
    /\ Len(ModelCalls) = 2
    /\ ret # x0

\* C2: in a sampler run with a callback, the callback is called once after
\* every completed step, in step order, right after the step and before the
\* next step's denoiser call, with i the step index, sigma = sigmas[i], x the
\* step's sample and denoised the step's denoiser output.
C2_CallbackPerStep ==
    (entry = "sampler" /\ callback) =>
        /\ Len(CallbackCalls) <= Len(StepsDone)
        /\ Len(StepsDone) <= Len(CallbackCalls) + 1
        /\ \A k \in 1..Len(CallbackCalls) :
            /\ CallbackCalls[k].i = k - 1
            /\ CallbackCalls[k].sigma = call.sigmas[k]
            /\ CallbackCalls[k].x = StepsDone[k].x
            /\ CallbackCalls[k].denoised = ModelCalls[k].denoised
        /\ \A p \in 1..Len(trace) :
            /\ trace[p].ev = "callback" =>
                p > 1 /\ trace[p - 1].ev = "step" /\ trace[p - 1].i = trace[p].i
            /\ (trace[p].ev = "model" /\ trace[p].i > 0) =>
                \E q \in 1..(p - 1) :
                    trace[q].ev = "callback" /\ trace[q].i = trace[p].i - 1
        /\ pc = "done" => Len(CallbackCalls) = NSteps

C2_Witness ==
    /\ entry = "sampler"
    /\ callback
    /\ pc = "done"
    /\ Len(CallbackCalls) = 2

\* C3: once the callback has raised, the run has ended with the callback's
\* exception: nothing happened after that callback call, no sample is
\* returned and no further step, denoiser call or callback call can follow.
C3_CallbackAbort ==
    (\E p \in 1..Len(trace) : trace[p].ev = "callback" /\ trace[p].raised) =>
        /\ trace[Len(trace)].ev = "callback"
        /\ trace[Len(trace)].raised
        /\ pc = "raised"
        /\ err = "CallbackError"
        /\ ret = NoTensor
        /\ ~ENABLED Next

C3_Witness ==
    /\ err = "CallbackError"
    /\ NSteps = 2
    /\ i = 0
    /\ Len(ModelCalls) = 1

\* The update of a plain Euler integrator.
PlainEuler(t, den, sigma, dt) == TAdd(t, TScale(TDivS(TSub(t, den), sigma), dt))

\* The histories init_hist_d can set for the run's history type.
InitialHistories ==
    IF sonar.history_type = "ZERO" THEN {IntZero}
    ELSE IF sonar.history_type = "SAMPLE" THEN {TensorHist(x0)}
    ELSE {TensorHist(Randn(Len(x0), r)) : r \in RandChoices}

\* C4: with momentum 1.0 the history stays as init_hist_d set it, whatever
\* momentum_hist, direction and the history type are, and every SonarEuler step
\* returns the plain Euler update x + d*dt of its input sample.
C4_MomentumOneIsEuler ==
    (sonar.cls # "None" /\ sonar.momentum = R(1)) =>
        /\ Len(StepsDone) >= 1 => sonar.history_d \in InitialHistories
        /\ sonar.cls = "SonarEuler" =>
            \A k \in 1..Len(StepsDone) :
                StepsDone[k].x =
                    PlainEuler(ModelCalls[k].x, ModelCalls[k].denoised,
                               sonar.sigmas[k],
                               RSub(sonar.sigmas[k + 1], ModelCalls[k].sigma_hat))

C4_Witness ==
    /\ sonar.cls = "SonarEuler"
    /\ sonar.momentum = R(1)
    /\ sonar.history_type = "SAMPLE"
    /\ sonar.direction = R(-1)
    /\ pc = "done"
    /\ Len(StepsDone) = 2

\* A SonarEuler.sampler run with momentum 1.0 and no churn whose denoiser has
\* returned the zero tensor at every call so far.
ZeroDenoiserRun ==
    /\ call.fn = "SonarEuler.sampler"
    /\ sonar.momentum = R(1)
    /\ sonar.s_churn = R(0)
    /\ \A k \in 1..Len(ModelCalls) : ModelCalls[k].denoised = Zeros(Len(x0))

\* What C5 says of the steps: each maps x to x*sigma_next/sigma, and on the
\* schedule [1.0, 0.5, 0.0] step 0 gives 0.5*x0 and step 1 gives zero.
ZeroDenoiserSteps ==
    /\ \A k \in 1..Len(StepsDone) :
        StepsDone[k].x =
            TScale(ModelCalls[k].x, RDiv(sonar.sigmas[k + 1], sonar.sigmas[k]))
    /\ sonar.sigmas = <<R(1), Q(1, 2), R(0)>> =>
        /\ Len(StepsDone) >= 1 => StepsDone[1].x = TScale(x0, Q(1, 2))
        /\ Len(StepsDone) >= 2 => StepsDone[2].x = Zeros(Len(x0))
        /\ pc = "done" => ret = Zeros(Len(x0))

\* C5 as claimed: with a zero denoiser, momentum 1.0 and no churn, every step
\* maps x to x*sigma_next/sigma and every schedule ending in 0 returns zero.
C5_Original ==
    ZeroDenoiserRun =>
        /\ ZeroDenoiserSteps
        /\ (pc = "done" /\ sonar.sigmas[Len(sonar.sigmas)] = R(0)) =>
            ret = Zeros(Len(x0))

\* C5 as amended: the same, for every schedule ending in 0 that has at least
\* one step; the one-entry schedule [0] returns the initial sample.
C5_ZeroDenoiserScales ==
    ZeroDenoiserRun =>
        /\ ZeroDenoiserSteps
        /\ (pc = "done" /\ sonar.sigmas[Len(sonar.sigmas)] = R(0)) =>
            ret = IF NSteps >= 1 THEN Zeros(Len(x0)) ELSE x0

C5_Witness ==
    /\ ZeroDenoiserRun
    /\ sonar.sigmas = <<R(1), Q(1, 2), R(0)>>
    /\ pc = "done"
    /\ Len(StepsDone) = 2
    /\ StepsDone[1].x = TScale(x0, Q(1, 2))
    /\ ret = Zeros(Len(x0))
    /\ ret # x0

\* C6 as claimed: the history of a sampler object is always the scalar 0 or a
\* tensor of the sample's shape.
C6_Original ==
    sonar.cls # "None" =>
        \/ sonar.history_d.kind = "int0"
        \/ sonar.history_d.kind = "tensor" /\ Len(sonar.history_d.t) = Len(x0)

\* C6 as amended: the history is None from construction until the first step
\* initialises it; once a step has completed it is the scalar 0 (only for the
\* history type ZERO) or a tensor of the sample's shape.
C6_HistoryShape ==
    sonar.cls # "None" =>
        /\ sonar.history_d.kind \in {"None", "int0", "tensor"}
        /\ sonar.history_d.kind = "None" => Len(StepsDone) = 0
        /\ sonar.history_d.kind = "int0" => sonar.history_type = "ZERO"
        /\ sonar.history_d.kind = "tensor" => Len(sonar.history_d.t) = Len(x0)

C6_Witness ==
    /\ sonar.history_type = "ZERO"
    /\ sonar.history_d.kind = "tensor"
    /\ Len(sonar.history_d.t) = 3
    /\ Len(StepsDone) = 2

\* C7: a SonarNaive object whose guidance_latent is None, whose guidance type
\* is None or whose guidance_factor is 0 raises no error, and its guidance
\* step returns the sample unchanged.
C7_GuidanceNoOp ==
    (/\ call.fn = "SonarNaive"
     /\ \/ call.guidance_latent = "None"
        \/ call.guidance_type = "None"
        \/ call.guidance_factor = R(0)) =>
        /\ err = ""
        /\ sonar.cls = "SonarNaive"
        /\ guidance_step(sonar, 0, x, x) = [raised |-> "", x |-> x]

\* C8: SonarEulerAncestral.sampler and SonarNaive.sampler called with a noise
\* type other than "gaussian" and a noise sampler raise ValueError before any
\* object is constructed and before any denoiser, noise-sampler or callback
\* call.
C8_NoiseSamplerConflict ==
    (/\ call.fn \in {"SonarEulerAncestral.sampler", "SonarNaive.sampler"}
     /\ call.noise_type # "gaussian"
     /\ call.noise_sampler) =>
        /\ pc = "raised"
        /\ err = "ValueError"
        /\ trace = <<>>
        /\ sonar = NoSonar

C8_Witness ==
    /\ call.fn = "SonarNaive.sampler"
    /\ call.noise_type = "perlin"
    /\ call.noise_sampler
    /\ pc = "raised"

\* The call passed a guidance or modulation tag that is not a recognised one.
UnrecognizedTag ==
    \/ call.fn \in {"ModulatedNoise", "GuidedNoise"} /\ call.tag = "bogus"
    \/ call.fn = "SonarNaive" /\ call.guidance_type = "BOGUS"

\* C9: an unrecognised guidance or modulation tag raises when the object is
\* constructed or bound: the specification is never bound and no step is ever
\* run with it.
C9_TagErrorAtBind ==
    UnrecognizedTag =>
        /\ pc \in {"noise_spec", "raised"}
        /\ trace = <<>>

\* C10: an error of the core in a sampler run is raised before the first
\* denoiser call.
C10_NoMidLoopError ==
    (entry = "sampler" /\ err \notin {"", "CallbackError"}) => Len(ModelCalls) = 0

\* A schedule with a positive sigma, so that sigma_min is defined.
HasPositiveSigma(sg) == \E k \in 1..Len(sg) : RLt(R(0), sg[k])

\* C11: SonarEulerAncestral.sampler and SonarNaive.sampler, called with the
\* default noise type "gaussian" and no noise sampler, bind a noise sampler
\* through get_noise_sampler without error, construct the sampler object and
\* run the loop over the step indices 0..N-1, returning the final sample.
C11_GaussianBinds ==
    (/\ \/ call.fn = "SonarEulerAncestral.sampler"
        \/ call.fn = "SonarNaive.sampler" /\ call.guidance_latent # "None"
     /\ call.noise_type = "gaussian"
     /\ ~call.noise_sampler
     /\ HasPositiveSigma(call.sigmas)) =>
        /\ err \in {"", "CallbackError"}
        /\ sonar.cls # "None"
        /\ pc = "done" => Len(StepsDone) = NSteps

\* C12: the factor of a chain is the sum of the absolute values of its
\* children's factors, and chain.rescaled(s) returns, for every chain and
\* every target s, a chain of factor s whose children's factors keep the
\* pairwise ratios they had.
C12_ChainRescaled ==
    (call.fn = "CustomNoiseChain" /\ noise_spec.scale # <<>>) =>
        LET old == noise_spec.items
            new == noise_spec.result
        IN  /\ err = ""
            /\ Len(new) = Len(old)
            /\ ChainFactor(new) = noise_spec.scale
            /\ \A j, k \in 1..Len(new) :
                RMul(ChildFactor(new[j]), ChildFactor(old[k]))
                    = RMul(ChildFactor(new[k]), ChildFactor(old[j]))

\* Where rescaled does what C12 says: a chain of items and combinator
\* specifications with a positive factor, rescaled to a positive target.
RescaledPositiveCase ==
    (/\ call.fn = "CustomNoiseChain"
     /\ noise_spec.scale # <<>>
     /\ RLt(R(0), noise_spec.scale)
     /\ RLt(R(0), ChainFactor(noise_spec.items))
     /\ \A k \in 1..Len(noise_spec.items) : noise_spec.items[k].kind # "chain") =>
        C12_ChainRescaled

\* rescaled raised AttributeError on a chain that holds a chain.
RescaledNestedRaises ==
    /\ call.fn = "CustomNoiseChain"
    /\ err = "AttributeError"
    /\ \E k \in 1..Len(noise_spec.items) : noise_spec.items[k].kind = "chain"

BaseCalls == EventsOf("base")

\* C13: a bound RepeatedNoise sampler with repeat_length >= 1 holds, after k
\* calls, exactly min(k, repeat_length) tensors in its cache: the outputs of
\* the base sampler at the first repeat_length calls, in order, unchanged, and
\* the base sampler is called at no other call.
C13_RepeatedCache ==
    (noise_spec.bound = "repeated" /\ noise_spec.repeat_length >= 1) =>
        /\ Len(noise_spec.cache) =
            IF noise_spec.calls <= noise_spec.repeat_length THEN noise_spec.calls
            ELSE noise_spec.repeat_length
        /\ Len(noise_spec.cache) <= noise_spec.repeat_length
        /\ Len(BaseCalls) = Len(noise_spec.cache)
        /\ \A k \in 1..Len(noise_spec.cache) :
            /\ BaseCalls[k].i = k - 1
            /\ noise_spec.cache[k] = BaseCalls[k].x

C13_Witness ==
    /\ noise_spec.bound = "repeated"
    /\ noise_spec.repeat_length = 2
    /\ noise_spec.calls = 4
    /\ Len(noise_spec.cache) = 2
    /\ noise_spec.cache[1] # noise_spec.cache[2]
    /\ noise_spec.idx = 0

\* The calls made so far to the children of a bound combinator sampler.
ChildCalls == SelectSeq(trace, LAMBDA e : e.ev \in {"base", "fallback", "zeros"})

\* C14: a call of a bound ScheduledNoise sampler with end_sigma <= sigma <=
\* start_sigma, bounds included, calls the base sampler and returns its output
\* scaled; a call with sigma outside the window returns the scaled output of
\* the fallback sampler, or the scaled zero tensor when no fallback was given.
C14_ScheduledWindow ==
    (noise_spec.bound = "scheduled" /\ noise_spec.calls >= 1) =>
        LET last == ChildCalls[Len(ChildCalls)]
            inside == /\ RLe(noise_spec.end_sigma, last.sigma)
                      /\ RLe(last.sigma, noise_spec.start_sigma)
        IN  /\ Len(ChildCalls) = noise_spec.calls
            /\ noise_spec.out =
                scale_noise(last.x, noise_spec.factor, noise_spec.normalize_bound)
            /\ inside => last.ev = "base" /\ last.x \in {BaseNoise(Len(x), r) : r \in RandChoices}
            /\ (~inside /\ noise_spec.fallback) =>
                last.ev = "fallback" /\ last.x = FallbackNoise(Len(x))
            /\ (~inside /\ ~noise_spec.fallback) =>
                /\ last.ev = "zeros"
                /\ last.x = Zeros(Len(x))
                /\ ~noise_spec.normalize_bound => noise_spec.out = Zeros(Len(x))

\* A call at the lower bound of the window went to the base sampler, after a
\* call outside the window went to the fallback sampler.
C14_Witness ==
    /\ noise_spec.bound = "scheduled"
    /\ noise_spec.calls = 2
    /\ noise_spec.fallback
    /\ ChildCalls[1].ev = "fallback"
    /\ ChildCalls[2].ev = "base"
    /\ ChildCalls[2].sigma = noise_spec.end_sigma
    /\ noise_spec.out = TScale(ChildCalls[2].x, R(2))

\* The noise-sampler calls made in the step of index idx.
NoiseCallsIn(idx) == SelectSeq(trace, LAMBDA e : e.ev = "noise" /\ e.i = idx)

\* A run of one of the two ancestral step functions.
AncestralRun == sonar.cls \in {"SonarEulerAncestral", "SonarNaive"}

\* C15 as claimed: every iteration of an ancestral run calls the noise sampler
\* exactly once, so a finished run has called it N times.
C15_Original ==
    AncestralRun =>
        /\ \A k \in 1..Len(StepsDone) : Len(NoiseCallsIn(k - 1)) = 1
        /\ pc = "done" => Len(NoiseCalls) = NSteps

\* C15 as amended: an iteration calls the noise sampler exactly once, with
\* (sigma_from, sigma_to), after its denoiser call, when its sigma_to is
\* positive, and not at all when its sigma_to is 0; a finished run has called
\* it N times when the schedule ends above 0 and N - 1 times when it ends in 0.
C15_NoisePerStep ==
    AncestralRun =>
        /\ \A k \in 1..Len(StepsDone) :
            /\ Len(NoiseCallsIn(k - 1)) =
                IF RLt(R(0), sonar.sigmas[k + 1]) THEN 1 ELSE 0
            /\ \A p \in 1..Len(trace) :
                (trace[p].ev = "noise" /\ trace[p].i = k - 1) =>
                    /\ trace[p].sigma = sonar.sigmas[k]
                    /\ trace[p].sigma_hat = sonar.sigmas[k + 1]
                    /\ p > 1 /\ trace[p - 1].ev = "model" /\ trace[p - 1].i = k - 1
                    /\ p < Len(trace) /\ trace[p + 1].ev = "step"
        /\ Len(NoiseCalls) <= Len(StepsDone)
        /\ pc = "done" =>
            Len(NoiseCalls) =
                IF NSteps >= 1 /\ sonar.sigmas[NSteps + 1] = R(0) THEN NSteps - 1
                ELSE NSteps

C15_Witness ==
    /\ sonar.cls = "SonarNaive"
    /\ pc = "done"
    /\ NSteps = 2
    /\ sonar.sigmas[3] = R(0)
    /\ Len(NoiseCalls) = 1
    /\ Len(ModelCalls) = 2

\* What C16 says momentum_step makes of the history h and the derivative d,
\* with m = momentum, h = momentum_hist: the momentum-corrected derivative and
\* the history written.
MomentumD(hist, d) ==
    LET p == RMul(RSub(R(1), sonar.momentum), sonar.direction)
    IN  IF hist.kind = "int0" THEN TScale(d, RSub(R(1), p))
        ELSE TAdd(TScale(d, RSub(R(1), p)), TScale(hist.t, p))
HistoryWritten(hist, d) ==
    IF hist.kind = "int0" THEN TensorHist(MomentumD(hist, d))
    ELSE TensorHist(TAdd(TScale(hist.t, sonar.momentum_hist),
                         TScale(MomentumD(hist, d),
                                RSub(R(1), sonar.momentum_hist))))

\* The derivative of the step whose denoiser call is ModelCalls[k].
DerivativeOf(k) ==
    TDivS(TSub(ModelCalls[k].x, ModelCalls[k].denoised), sonar.sigmas[k])

\* C16: with momentum m # 1.0, every step integrates momentum_d = (1-p)*d +
\* p*history with p = (1-m)*direction, a SonarEuler step returning x +
\* momentum_d*dt, and writes the history momentum_d if the history was the
\* scalar 0 and h*history + (1-h)*momentum_d otherwise; the history a step
\* uses is the one the step before wrote (the initial one in the first step).
C16_MomentumStep ==
    (sonar.cls # "None" /\ sonar.momentum # R(1)) =>
        \E h0 \in InitialHistories :
            /\ \A k \in 1..Len(StepsDone) :
                LET hist == IF k = 1 THEN h0 ELSE StepsDone[k - 1].history_d
                    d == DerivativeOf(k)
                    dt == RSub(sonar.sigmas[k + 1], ModelCalls[k].sigma_hat)
                IN  /\ StepsDone[k].history_d = HistoryWritten(hist, d)
                    /\ sonar.cls = "SonarEuler" =>
                        StepsDone[k].x =
                            TAdd(ModelCalls[k].x, TScale(MomentumD(hist, d), dt))
            /\ Len(StepsDone) >= 1 =>
                sonar.history_d = StepsDone[Len(StepsDone)].history_d

C16_Witness ==
    /\ sonar.cls = "SonarEuler"
    /\ sonar.momentum = Q(1, 2)
    /\ sonar.momentum_hist = Q(3, 4)
    /\ sonar.history_type = "ZERO"
    /\ Len(StepsDone) = 2
    /\ StepsDone[1].history_d # StepsDone[2].history_d
    /\ StepsDone[2].history_d.t # MomentumD(StepsDone[1].history_d, DerivativeOf(2))

\* The history init_hist_d sets from the sample t when it draws r.
InitialHistory(t, r) ==
    IF sonar.history_type = "ZERO" THEN IntZero
    ELSE IF sonar.history_type = "SAMPLE" THEN TensorHist(t)
    ELSE TensorHist(Randn(Len(t), r))

\* C17: the history is None until the first step, whose init_hist_d sets it
\* from that step's input sample according to history_type (ZERO: the scalar
\* 0, SAMPLE: the sample, RAND: a drawn tensor); in every later step
\* init_hist_d leaves the history as it is, also a history that is still the
\* scalar 0.
C17_InitOnce ==
    sonar.cls # "None" =>
        /\ (Len(StepsDone) = 0 /\ err = "") => sonar.history_d = NoneHist
        /\ Len(StepsDone) >= 1 => sonar.history_d # NoneHist
        /\ (pc = "loop" /\ i < NSteps) =>
            \A r \in RandChoices :
                LET h == init_hist_d(sonar, x, r)
                IN  /\ h.raised = ""
                    /\ h.history_d = IF i = 0 THEN InitialHistory(x0, r)
                                     ELSE sonar.history_d
        /\ Len(StepsDone) >= 1 =>
            \E r \in RandChoices :
                IF sonar.momentum = R(1) THEN sonar.history_d = InitialHistory(x0, r)
                ELSE StepsDone[1].history_d =
                        HistoryWritten(InitialHistory(x0, r), DerivativeOf(1))

\* A second step is about to run on a history that is still the scalar 0.
C17_Witness ==
    /\ sonar.history_type = "ZERO"
    /\ sonar.momentum = R(1)
    /\ sonar.history_d = IntZero
    /\ pc = "loop"
    /\ i = 1
    /\ NSteps = 2
    /\ Len(StepsDone) = 1

\* The momentum-integrated sample of the step of index k - 1 of an ancestral
\* run whose ancestral step is taken with eta, hist being the history the
\* step starts from.
IntegratedSample(k, hist, eta) ==
    LET d == DerivativeOf(k)
        sigma_down == get_ancestral_step(sonar.sigmas[k], sonar.sigmas[k + 1], eta)[1]
        dt == RSub(sigma_down, sonar.sigmas[k])
        md == IF sonar.momentum = R(1) THEN d ELSE MomentumD(hist, d)
    IN  TAdd(ModelCalls[k].x, TScale(md, dt))

\* C18: a SonarEulerAncestral step from sigma_from to sigma_to integrates with
\* dt = sigma_down - sigma_from; when sigma_to > 0 it calls the noise sampler
\* once with (sigma_from, sigma_to) and adds its output times s_noise times
\* sigma_up to the integrated sample; when sigma_to is 0 it makes no such call
\* and returns the integrated sample.
C18_AncestralNoise ==
    sonar.cls = "SonarEulerAncestral" =>
        \E h0 \in InitialHistories :
            \A k \in 1..Len(StepsDone) :
                LET hist == IF k = 1 THEN h0 ELSE StepsDone[k - 1].history_d
                    integrated == IntegratedSample(k, hist, sonar.eta)
                    sigma_up == get_ancestral_step(sonar.sigmas[k], sonar.sigmas[k + 1],
                                                   sonar.eta)[2]
                    drawn == NoiseCallsIn(k - 1)
                IN  IF RLt(R(0), sonar.sigmas[k + 1])
                    THEN /\ Len(drawn) = 1
                         /\ drawn[1].sigma = sonar.sigmas[k]
                         /\ drawn[1].sigma_hat = sonar.sigmas[k + 1]
                         /\ StepsDone[k].x =
                             TAdd(integrated,
                                  TScale(drawn[1].x, RMul(sonar.s_noise, sigma_up)))
                    ELSE /\ Len(drawn) = 0
                         /\ StepsDone[k].x = integrated

C18_Witness ==
    /\ sonar.cls = "SonarEulerAncestral"
    /\ sonar.eta = R(1)
    /\ sonar.s_noise = R(2)
    /\ sonar.momentum = Q(1, 2)
    /\ pc = "done"
    /\ NSteps = 2
    /\ sonar.sigmas[3] = R(0)
    /\ Len(NoiseCalls) = 1
    /\ \A h0 \in InitialHistories : StepsDone[1].x # IntegratedSample(1, h0, R(1))

\* The noise the step of index k - 1 added: the noise sampler's output times
\* s_noise times the sigma_up of eta, zero when the sampler was not called.
NoiseAdded(k, eta) ==
    LET drawn == NoiseCallsIn(k - 1)
        sigma_up == get_ancestral_step(sonar.sigmas[k], sonar.sigmas[k + 1], eta)[2]
    IN  IF Len(drawn) = 0 THEN Zeros(Len(x0))
        ELSE TScale(drawn[1].x, RMul(sonar.s_noise, sigma_up))

\* Guidance does nothing on this object.
GuidanceIsNoOp ==
    \/ sonar.ref_latent = NoTensor
    \/ sonar.guidance_type = "None"
    \/ sonar.guidance_factor = R(0)

\* A SonarNaive object whose guidance type, if set, is a recognised one.
NaiveRun == sonar.cls = "SonarNaive" /\ sonar.guidance_type # "BOGUS"

\* C19 as claimed: every SonarNaive step calls the denoiser, integrates with
\* momentum, applies guidance to the integrated sample with the step's
\* denoised estimate and adds the ancestral noise to the guided sample.
C19_Original ==
    NaiveRun =>
        \E h0 \in InitialHistories :
            \A k \in 1..Len(StepsDone) :
                LET hist == IF k = 1 THEN h0 ELSE StepsDone[k - 1].history_d
                    integrated == IntegratedSample(k, hist, R(1))
                    guided == guidance_step(sonar, k - 1, integrated,
                                            ModelCalls[k].denoised)
                IN  StepsDone[k].x = TAdd(guided.x, NoiseAdded(k, R(1)))

\* C19 as amended: a SonarNaive step whose sigma_to is positive calls the
\* denoiser, integrates with momentum, applies guidance to the integrated
\* sample with the step's denoised estimate and adds the ancestral noise to
\* the guided sample; a step whose sigma_to is 0 applies no guidance and adds
\* no noise; and when guidance is a no-op every step returns what a
\* SonarEulerAncestral step with eta = 1.0 returns for the same inputs and
\* state.
C19_NaiveOrder ==
    NaiveRun =>
        \E h0 \in InitialHistories :
            \A k \in 1..Len(StepsDone) :
                LET hist == IF k = 1 THEN h0 ELSE StepsDone[k - 1].history_d
                    before == IF k = 1 THEN NoneHist ELSE StepsDone[k - 1].history_d
                    integrated == IntegratedSample(k, hist, R(1))
                    guided == guidance_step(sonar, k - 1, integrated,
                                            ModelCalls[k].denoised)
                    twin == [sonar EXCEPT !.cls = "SonarEulerAncestral",
                                          !.eta = R(1), !.history_d = before]
                IN  /\ ModelCalls[k].i = k - 1
                    /\ IF RLt(R(0), sonar.sigmas[k + 1])
                       THEN /\ Len(NoiseCallsIn(k - 1)) = 1
                            /\ StepsDone[k].x = TAdd(guided.x, NoiseAdded(k, R(1)))
                       ELSE /\ Len(NoiseCallsIn(k - 1)) = 0
                            /\ StepsDone[k].x = integrated
                    /\ GuidanceIsNoOp =>
                        \E dsel \in {c \in DenoiserChoices :
                                        Model(ModelCalls[k].x, c) = ModelCalls[k].denoised},
                           rsel \in IF k = 1 THEN RandChoices ELSE {"a"},
                           nsel \in {c \in RandChoices :
                                        \A q \in 1..Len(NoiseCallsIn(k - 1)) :
                                            NoiseCallsIn(k - 1)[q].x = Randn(Len(x0), c)} :
                            LET r == AncestralStep(twin, k - 1, ModelCalls[k].x, dsel,
                                                   rsel, nsel)
                            IN  <<r.raised, r.x, r.self.history_d>>
                                    = <<"", StepsDone[k].x, StepsDone[k].history_d>>

\* A guided step with noise was followed by a last step to sigma 0.
C19_Witness ==
    /\ NaiveRun
    /\ ~GuidanceIsNoOp
    /\ sonar.guidance_type = "EULER"
    /\ pc = "done"
    /\ NSteps = 2
    /\ sonar.sigmas[3] = R(0)
    /\ Len(NoiseCalls) = 1
    /\ \A h0 \in InitialHistories :
        StepsDone[1].x # TAdd(IntegratedSample(1, h0, R(1)), NoiseAdded(1, R(1)))

\* Steps of an object whose guidance is a no-op.
NaiveNoOpRunDone ==
    /\ NaiveRun
    /\ GuidanceIsNoOp
    /\ sonar.guidance_type = "LINEAR"
    /\ pc = "done"
    /\ NSteps = 2
    /\ Len(NoiseCalls) = 2

\* What C20 says of the SonarEuler steps made so far: the denoiser is invoked
\* at sigma_hat = sigma*(1+gamma), on the unperturbed sample when gamma is 0,
\* and the step is taken with dt = sigma_next - sigma_hat.
ChurnSteps ==
    \A k \in 1..Len(StepsDone) :
        LET sigma == sonar.sigmas[k]
            gamma == IF /\ RLt(R(0), sonar.s_churn)
                        /\ RLe(sonar.s_tmin, sigma) /\ RLe(sigma, sonar.s_tmax)
                     THEN RMin(RDiv(sonar.s_churn, R(NSteps)), Sqrt2Minus1)
                     ELSE R(0)
            sgh == RMul(sigma, RAdd(R(1), gamma))
            fed == IF k = 1 THEN x0 ELSE StepsDone[k - 1].x
        IN  /\ ModelCalls[k].sigma_hat = sgh
            /\ StepsDone[k].sigma_hat = sgh
            /\ gamma = R(0) => ModelCalls[k].x = fed
            /\ RLt(R(0), gamma) => ModelCalls[k].x # fed
            /\ sonar.momentum = R(1) =>
                StepsDone[k].x =
                    PlainEuler(ModelCalls[k].x, ModelCalls[k].denoised, sigma,
                               RSub(sonar.sigmas[k + 1], sgh))

\* C20: a SonarEuler step with s_churn > 0 at a sigma within [s_tmin, s_tmax]
\* perturbs the sample with noise, invokes the denoiser at sigma_hat =
\* sigma*(1+gamma) with gamma = min(s_churn/N, sqrt(2)-1) > 0 and steps with
\* dt = sigma_next - sigma_hat; a step with s_churn = 0 or sigma outside the
\* window has gamma = 0, leaves the sample unperturbed and has sigma_hat =
\* sigma.  No step fails.
C20_Churn ==
    call.fn = "SonarEuler.sampler" =>
        /\ err \in {"", "CallbackError"}
        /\ ChurnSteps

\* The steps that do complete are those with gamma = 0, and they are as C20
\* says.
ChurnFreeSteps ==
    call.fn = "SonarEuler.sampler" =>
        /\ ChurnSteps
        /\ \A k \in 1..Len(StepsDone) : EulerGamma(sonar, sonar.sigmas[k]) = R(0)
        /\ err \notin {"", "CallbackError"} =>
            /\ err = "TypeError"
            /\ RLt(R(0), EulerGamma(sonar, sonar.sigmas[i + 1]))

\* A call of a bound RepeatedNoise sampler has returned.
RepeatedReturned ==
    /\ noise_spec.bound = "repeated"
    /\ noise_spec.repeat_length >= 1
    /\ noise_spec.calls >= 1
    /\ err = ""

\* The last call was made while the cache was filling.
LastCallFilled == noise_spec.calls <= noise_spec.repeat_length

\* The cache entry the last call selected, and its final scaling.
SelectedEntry == noise_spec.cache[noise_spec.idx + 1]
Scaled(t) == scale_noise(t, noise_spec.factor, noise_spec.normalize_bound)

\* C21 as claimed: with permute set, a call made while the cache is filling
\* returns the tensor it generated and appended with no flip or roll applied.
C21_Original ==
    (RepeatedReturned /\ noise_spec.permute /\ LastCallFilled) =>
        noise_spec.out \in {SelectedEntry, Scaled(SelectedEntry)}

\* C21 as amended: with permute set, every call, whether the cache is filling
\* or full, returns the selected entry kept, flipped or rolled as the call's
\* random numbers choose, and then scaled; a call made while the cache is
\* filling selects the tensor it generated and appended, and the appended
\* entry itself is the base sampler's output, unpermuted.
C21_PermuteOnFill ==
    (RepeatedReturned /\ noise_spec.permute) =>
        LET rs == noise_spec.rands
            permuted ==
                IF rs[2] % 2 = 1 THEN Roll(SelectedEntry, rs[4] % Len(SelectedEntry))
                ELSE IF rs[3] <= U32MaxTenth THEN SelectedEntry
                ELSE Flip(SelectedEntry)
        IN  /\ noise_spec.out = Scaled(permuted)
            /\ LastCallFilled =>
                /\ noise_spec.idx = noise_spec.calls - 1
                /\ SelectedEntry = BaseCalls[noise_spec.calls].x

\* The first call of a sampler returned its new tensor flipped.
C21_Witness ==
    /\ RepeatedReturned
    /\ noise_spec.permute
    /\ noise_spec.calls = 1
    /\ noise_spec.repeat_length = 2
    /\ noise_spec.out = Scaled(Flip(SelectedEntry))
    /\ noise_spec.out # Scaled(SelectedEntry)

\* C22: with permute unset, every call of a bound RepeatedNoise sampler
\* returns the selected cache entry after the final normalize and
\* scale-by-factor step, as the permuting path does, and the cache entries
\* stay the base sampler's outputs.
C22_UnpermutedScaled ==
    (RepeatedReturned /\ ~noise_spec.permute) =>
        /\ noise_spec.out = Scaled(SelectedEntry)
        /\ \A k \in 1..Len(noise_spec.cache) : noise_spec.cache[k] = BaseCalls[k].x

\* What the calls with permute unset do return: the selected entry as cached,
\* neither normalized nor multiplied by the factor.
UnpermutedReturnsEntry ==
    (RepeatedReturned /\ ~noise_spec.permute) =>
        /\ noise_spec.out = SelectedEntry
        /\ \A k \in 1..Len(noise_spec.cache) : noise_spec.cache[k] = BaseCalls[k].x

\* The sigma of a call lies in [end_sigma, start_sigma] of the bound
\* specification.
InWindow(e) ==
    RLe(noise_spec.end_sigma, e.sigma) /\ RLe(e.sigma, noise_spec.start_sigma)

\* C23: every call of a bound ScheduledNoise sampler invokes exactly one
\* child: the base sampler when sigma is inside the window and the fallback
\* sampler (the zero function when none was given) when it is outside; so the
\* base sampler has been invoked as often as there were calls with sigma
\* inside the window.
C23_OneChildPerCall ==
    noise_spec.bound = "scheduled" =>
        /\ Len(ChildCalls) = noise_spec.calls
        /\ \A k \in 1..Len(ChildCalls) :
            /\ ChildCalls[k].i = k - 1
            /\ ChildCalls[k].ev = "base" <=> InWindow(ChildCalls[k])
            /\ ChildCalls[k].ev = "fallback" <=>
                (~InWindow(ChildCalls[k]) /\ noise_spec.fallback)
            /\ ChildCalls[k].ev = "zeros" <=>
                (~InWindow(ChildCalls[k]) /\ ~noise_spec.fallback)
        /\ Len(BaseCalls) = Len(SelectSeq(ChildCalls, InWindow))
        /\ Len(trace) = Len(ChildCalls)

C23_Witness ==
    /\ noise_spec.bound = "scheduled"
    /\ noise_spec.fallback
    /\ noise_spec.calls = 4
    /\ Len(BaseCalls) = 2
    /\ Len(EventsOf("fallback")) = 2
    /\ ChildCalls[1].ev = "base"
    /\ ChildCalls[2].ev = "fallback"
    /\ ChildCalls[3].ev = "base"

====
